---- MODULE Spec2Model ----
(***************************************************************************)
(* A model of lockstep (src/src/main.rs): the manifest walk and revision   *)
(* comparison, the lockfile check with its MySourceId set, and the driver  *)
(* main() with the package-manifest (prebuilt image) check.                *)
(*                                                                         *)
(* Strings that the program only compares for equality are TLA+ strings.   *)
(* Strings it takes apart (git URLs tested with ends_with, URL paths       *)
(* stripped of a prefix, response bodies that are trimmed, filesystem      *)
(* paths that are joined and globbed) are sequences of pieces.  Option<T>  *)
(* is a sequence of length at most one.  Git revisions are 1..MaxRev.      *)
(***************************************************************************)
EXTENDS Integers, Sequences, FiniteSets, TLC

VARIABLES
    exists,          \* the checkout directories present in the working directory
    heads,           \* repository name -> HEAD revision of its checkout
    fs,              \* directory -> the Cargo.toml in it (parsed, or unparseable)
    unreadable,      \* directories whose listing fails (glob yields a GlobError)
    lockfiles,       \* repository name -> its Cargo.lock
    pkgman,          \* omicron/package-manifest.toml: package name -> package
    responses,       \* buildomat: artifact name -> the answer to the query
    pc,              \* position of main()
    latest_revs,     \* BTreeMap<String, String> of main()
    update_required, \* the flag of main()
    todo,            \* package names the package-manifest loop has yet to visit
    out,             \* lines printed to stdout, in order
    errout,          \* lines printed to stderr, in order
    ran,             \* history: the checks main() has called, in order
    queries,         \* history: the buildomat queries sent, in order
    call,            \* the arguments of the function applied (function-level runs)
    run,             \* which run of the program this is
    prev_out         \* stdout of the previous run

vars == <<exists, heads, fs, unreadable, lockfiles, pkgman, responses, pc,
          latest_revs, update_required, todo, out, errout, ran, queries,
          call, run, prev_out>>

env == <<exists, heads, fs, unreadable, lockfiles, pkgman, responses>>

----------------------------------------------------------------------------
(* Bounds *)

MaxRev == 2

MaxPkgs == 3

MaxMembers == 2

Revs == 1..MaxRev

None == <<>>

Some(x) == <<x>>

Opt(S) == {None} \cup {Some(x) : x \in S}

SeqUpTo(S, n) == UNION {[1..k -> S] : k \in 0..n}

IsSuffix(p, s) ==
    /\ Len(p) <= Len(s)
    /\ \A i \in 1..Len(p) : s[Len(s) - Len(p) + i] = p[i]

Range(s) == {s[i] : i \in DOMAIN s}

RECURSIVE Flatten(_)
Flatten(ss) == IF ss = <<>> THEN <<>> ELSE Head(ss) \o Flatten(Tail(ss))

----------------------------------------------------------------------------
(* Cargo.toml: cargo_toml::Manifest, and the files under the checkouts *)

\* the order of a BTreeMap<String, Dependency>: sorted by key
DepKeyOrder == <<"crucible", "propolis">>

GitCrucible == <<"https://github.com/oxidecomputer/", "crucible">>

GitPropolis == <<"https://github.com/oxidecomputer/", "propolis">>

\* str::ends_with(package): the package name is one piece
ends_with(git, package) == IsSuffix(<<package>>, git)

\* Dependency::detail(): None for a plain version requirement
SimpleDep == [detail |-> None]

DetailDep(git, rev) == [detail |-> Some([git |-> git, rev |-> rev])]

\* the lines one dependency table of one manifest yields (lines 66-83, 86-103)
DepsDrift(cargo_path, deps, package, ensure_rev) ==
    LET keys == SelectSeq(DepKeyOrder, LAMBDA k : k \in DOMAIN deps)
        line(k) ==
            LET dep == deps[k] IN
            IF /\ dep.detail # None
               /\ dep.detail[1].git # None
               /\ ends_with(dep.detail[1].git[1], package)
               /\ dep.detail[1].rev # None
               /\ dep.detail[1].rev[1] # ensure_rev
            THEN << [type |-> "revision-drift", path |-> cargo_path, key |-> k,
                     from |-> dep.detail[1].rev[1], to |-> ensure_rev] >>
            ELSE <<>>
    IN  Flatten([i \in 1..Len(keys) |-> line(keys[i])])

\* every directory a Cargo.toml can be in, in the order glob yields paths
DirOrder ==
    << <<"crucible">>, <<"omicron">>, <<"omicron", "lib", "a">>,
       <<"omicron", "lib", "b">>, <<"propolis">>, <<"propolis", "lib", "a">>,
       <<"propolis", "lib", "b">> >>

\* glob::Pattern on one path: "*" matches any one component
PathMatches(pattern, path) ==
    /\ Len(pattern) = Len(path)
    /\ \A i \in 1..Len(pattern) : pattern[i] = "*" \/ pattern[i] = path[i]

\* glob("./{sub_directory}/{member}/Cargo.toml"): the matching files in sorted
\* order, or one GlobError when a directory a wildcard must list is unreadable
glob(fsys, unread, sub_directory, member) ==
    LET pattern == sub_directory \o member
        wild == {i \in 1..Len(pattern) : pattern[i] = "*"}
        failed == \E i \in wild : SubSeq(pattern, 1, i - 1) \in unread
        hits == SelectSeq(DirOrder,
                    LAMBDA d : d \in DOMAIN fsys /\ PathMatches(pattern, d))
    IN  IF failed THEN << [ok |-> FALSE, path |-> pattern] >>
        ELSE [i \in 1..Len(hits) |-> [ok |-> TRUE, path |-> hits[i]]]

\* the nested loops of lines 105-108 visit these glob items, in this order
GlobMembers(fsys, unread, sub_directory, members) ==
    Flatten([i \in 1..Len(members) |->
                glob(fsys, unread, sub_directory, members[i])])

RECURSIVE compare_cargo_toml_revisions(_, _, _, _, _, _)
RECURSIVE compare_members(_, _, _, _, _, _)

\* lines 57-136.  The result: the lines printed, the lines logged, the flag
\* returned (upd) and whether the call returned Err (err).
compare_cargo_toml_revisions(fsys, unread, sub_directory, cargo_manifest, package, ensure_rev) ==
    LET cargo_path == sub_directory \o <<"Cargo.toml">>
        direct == DepsDrift(cargo_path, cargo_manifest.dependencies,
                            package, ensure_rev)
    IN  IF cargo_manifest.workspace = None
        THEN [out |-> direct, errout |-> <<>>, upd |-> direct # <<>>,
              err |-> FALSE]
        ELSE
          LET workspace == cargo_manifest.workspace[1]
              scoped == DepsDrift(cargo_path, workspace.dependencies,
                                  package, ensure_rev)
              sub == compare_members(fsys, unread,
                        GlobMembers(fsys, unread, sub_directory,
                                    workspace.members),
                        package, ensure_rev,
                        [out |-> direct \o scoped, errout |-> <<>>,
                         upd |-> (direct \o scoped) # <<>>, err |-> FALSE])
          IN  sub

\* lines 108-131: the glob items left to visit, and what was done so far
compare_members(fsys, unread, items, package, ensure_rev, acc) ==
    IF items = <<>> THEN acc
    ELSE
      LET item == Head(items) IN
      IF ~item.ok
      THEN [acc EXCEPT !.err = TRUE]                       \* return Err(..)
      ELSE IF ~fsys[item.path].parsed
      THEN compare_members(fsys, unread, Tail(items), package, ensure_rev,
               [acc EXCEPT !.errout = @ \o
                   << [type |-> "error-with", path |-> item.path] >>])
      ELSE
        LET r == compare_cargo_toml_revisions(fsys, unread, item.path,
                     fsys[item.path], package, ensure_rev)
            acc2 == [out |-> acc.out \o r.out,
                     errout |-> acc.errout \o r.errout,
                     upd |-> acc.upd \/ r.upd,
                     err |-> r.err]
        IN  IF r.err THEN acc2                              \* the ? of line 130
            ELSE compare_members(fsys, unread, Tail(items), package,
                                 ensure_rev, acc2)

----------------------------------------------------------------------------
(* get_explicit_dependencies: the dependency names of all Cargo.toml files *)

RECURSIVE get_explicit_dependencies(_, _, _, _)
RECURSIVE explicit_members(_, _, _, _)

\* lines 139-181.  acc is the HashSet passed by &mut with the lines logged so
\* far; the result adds whether the call returned Err.
get_explicit_dependencies(fsys, unread, sub_directory, acc) ==
    IF sub_directory \notin DOMAIN fsys \/ ~fsys[sub_directory].parsed
    THEN [acc EXCEPT !.errout = @ \o << [type |-> "error-with", path |-> sub_directory] >>]
    ELSE
      LET cargo_manifest == fsys[sub_directory]
          direct == [acc EXCEPT !.dependencies = @ \cup DOMAIN cargo_manifest.dependencies]
      IN  IF cargo_manifest.workspace = None THEN direct
          ELSE LET workspace == cargo_manifest.workspace[1]
               IN  explicit_members(fsys, unread,
                       GlobMembers(fsys, unread, sub_directory, workspace.members),
                       [direct EXCEPT !.dependencies = @ \cup DOMAIN workspace.dependencies])

\* lines 164-176: the glob items left to visit
explicit_members(fsys, unread, items, acc) ==
    IF items = <<>> THEN acc
    ELSE IF ~Head(items).ok THEN [acc EXCEPT !.err = TRUE]
    ELSE LET r == get_explicit_dependencies(fsys, unread, Head(items).path, acc)
         IN  IF r.err THEN r ELSE explicit_members(fsys, unread, Tail(items), r)

----------------------------------------------------------------------------
(* Cargo.lock: cargo_lock::Lockfile, MySourceId and the lockfile check *)

UrlCrucible == [host |-> "github.com", path |-> <<"oxidecomputer", "crucible">>]

UrlProgenitor == [host |-> "github.com", path |-> <<"oxidecomputer", "progenitor">>]

UrlCrates == [host |-> "github.com", path |-> <<"rust-lang", "crates.io-index">>]

\* Url orders by its serialization
UrlOrder == <<UrlCrucible, UrlProgenitor, UrlCrates>>

GitBranch == [k |-> "Git", reference |-> "Branch", name |-> "main"]

GitRev == [k |-> "Git", reference |-> "Rev", name |-> "abc"]

Registry == [k |-> "Registry", reference |-> "", name |-> ""]

\* the derived order of SourceKind: Git(Tag < Branch < Rev) < Registry
KindOrder == <<GitBranch, GitRev, Registry>>

IndexOf(seq, x) == CHOOSE i \in DOMAIN seq : seq[i] = x

OrdCmp(i, j) == IF i < j THEN "Less" ELSE IF i > j THEN "Greater" ELSE "Equal"

\* a mutant: the derived comparison, which looks at precise too
MySourceId_cmp_derived(a, b) ==
    IF a.kind # b.kind THEN OrdCmp(IndexOf(KindOrder, a.kind), IndexOf(KindOrder, b.kind))
    ELSE IF a.url # b.url THEN OrdCmp(IndexOf(UrlOrder, a.url), IndexOf(UrlOrder, b.url))
    ELSE IF a.precise = b.precise THEN "Equal" ELSE "Less"

\* impl Ord for MySourceId (lines 204-214): kind, then url; precise ignored
MySourceId_cmp(a, b) ==
    IF OrdCmp(IndexOf(KindOrder, a.kind), IndexOf(KindOrder, b.kind)) # "Equal"
    THEN OrdCmp(IndexOf(KindOrder, a.kind), IndexOf(KindOrder, b.kind))
    ELSE OrdCmp(IndexOf(UrlOrder, a.url), IndexOf(UrlOrder, b.url))

\* impl PartialEq for MySourceId (lines 192-196)
MySourceId_eq(a, b) == MySourceId_cmp(a, b) = "Equal"

\* HashSet::get: the element equal to id, if there is one.  (Hash feeds url and
\* kind, the fields eq reads, so equal elements share a bucket.)
HashSet_get(sources, id) ==
    IF \E e \in sources : MySourceId_eq(e, id)
    THEN Some(CHOOSE e \in sources : MySourceId_eq(e, id))
    ELSE None

\* HashSet::insert: an element equal to one already in the set is not inserted
HashSet_insert(sources, id) ==
    IF \E e \in sources : MySourceId_eq(e, id) THEN sources ELSE sources \cup {id}

\* Path::strip_prefix("/oxidecomputer/") on the URL path
strip_oxide(path) == IF path # <<>> /\ Head(path) = "oxidecomputer" THEN Some(Tail(path)) ELSE None

\* BTreeMap::get(repo): repo is what is left of the path, a key only if it is
\* one component that names a tracked repository
latest_get(latest, repo) == IF Len(repo) = 1 /\ repo[1] \in DOMAIN latest THEN Some(latest[repo[1]]) ELSE None

\* a mutant: the stale pin is reported for transitive packages too
stale_pin_any(package, dependencies, sub_directory, latest) ==
    LET source == package.source[1]
        repo == strip_oxide(source.url.path)
    IN  IF /\ repo # None
           /\ source.kind.k = "Git" /\ source.kind.reference = "Branch"
           /\ source.precise # None
           /\ latest_get(latest, repo[1]) # None
           /\ latest_get(latest, repo[1])[1] # source.precise[1]
        THEN << [type |-> "lockfile-stale-pin", dir |-> sub_directory, repo |-> repo[1], name |-> package.name, from |-> source.precise[1], to |-> latest_get(latest, repo[1])[1]] >>
        ELSE <<>>

\* lines 242-266: the line a package with a source prints, if any
stale_pin(package, dependencies, sub_directory, latest) ==
    LET source == package.source[1]
        repo == strip_oxide(source.url.path)
    IN  IF /\ repo # None
           /\ source.kind.k = "Git" /\ source.kind.reference = "Branch"
           /\ source.precise # None
           /\ latest_get(latest, repo[1]) # None
           /\ latest_get(latest, repo[1])[1] # source.precise[1]
           /\ package.name \in dependencies
        THEN << [type |-> "lockfile-stale-pin", dir |-> sub_directory, repo |-> repo[1], name |-> package.name, from |-> source.precise[1], to |-> latest_get(latest, repo[1])[1]] >>
        ELSE <<>>

\* lines 240-287: the loop over the packages; acc holds the lines printed,
\* the HashSet sources, and the record of a panic (line 278)
RECURSIVE check_packages(_, _, _, _, _)
check_packages(packages, dependencies, sub_directory, latest, acc) ==
    IF packages = <<>> THEN acc
    ELSE
      LET package == Head(packages) IN
      IF package.source = None
      THEN check_packages(Tail(packages), dependencies, sub_directory, latest, acc)
      ELSE
        LET source == package.source[1]
            printed == acc.out \o stale_pin(package, dependencies, sub_directory, latest)
            my_source_id == [url |-> source.url, kind |-> source.kind, precise |-> source.precise]
            existing_source == HashSet_get(acc.sources, my_source_id)
        IN  IF existing_source # None /\ existing_source[1].precise # my_source_id.precise
            THEN [out |-> printed, sources |-> acc.sources, panic |-> Some([existing |-> existing_source[1], new |-> my_source_id])]
            ELSE check_packages(Tail(packages), dependencies, sub_directory, latest,
                     [out |-> printed, sources |-> HashSet_insert(acc.sources, my_source_id), panic |-> None])

\* lines 223-287, up to the loop that prints the set: the outcome is "err"
\* (the load or the dependency walk failed), "panic" or "ok"
check_cargo_lock_revisions(fsys, unread, lockfile, sub_directory, latest) ==
    IF ~lockfile.loaded
    THEN [outcome |-> "err", out |-> <<>>, errout |-> <<>>, sources |-> {}]
    ELSE
      LET walk == get_explicit_dependencies(fsys, unread, sub_directory, [dependencies |-> {}, errout |-> <<>>, err |-> FALSE])
      IN  IF walk.err
          THEN [outcome |-> "err", out |-> <<>>, errout |-> walk.errout, sources |-> {}]
          ELSE LET r == check_packages(lockfile.packages, walk.dependencies, sub_directory, latest, [out |-> <<>>, sources |-> {}, panic |-> None])
               IN  [outcome |-> IF r.panic # None THEN "panic" ELSE "ok", out |-> r.out, errout |-> walk.errout, sources |-> r.sources]

\* the orders in which a HashSet of the given elements can be iterated
Orders(S) == {p \in [1..Cardinality(S) -> S] : \A i, j \in DOMAIN p : p[i] = p[j] => i = j}

\* lines 289-291: one line for each source, in the set's iteration order
source_lines(sub_directory, order) == [i \in DOMAIN order |-> [type |-> "lockfile-source", dir |-> sub_directory, source |-> order[i]]]

----------------------------------------------------------------------------
(* The inputs of the function-level runs *)

DepChoices ==
    {SimpleDep, DetailDep(None, None)}
        \cup {DetailDep(Some(g), r) : g \in {GitCrucible, GitPropolis}, r \in Opt(Revs)}

NoDeps == [k \in {} |-> SimpleDep]

OneDep(k, d) == [x \in {k} |-> d]

TwoDeps(d1, d2) == [x \in {"crucible", "propolis"} |-> IF x = "crucible" THEN d1 ELSE d2]

Leaf(deps) == [parsed |-> TRUE, dependencies |-> deps, workspace |-> None]

WorkspaceRoot(deps, wdeps, members) == [parsed |-> TRUE, dependencies |-> deps, workspace |-> Some([dependencies |-> wdeps, members |-> members])]

Unparsed == [parsed |-> FALSE]

CrucibleTables == {NoDeps} \cup {OneDep("crucible", d) : d \in DepChoices}

RootTables == CrucibleTables \cup {TwoDeps(d, DetailDep(Some(GitCrucible), Some(1))) : d \in DepChoices}

PinTables == {NoDeps} \cup {OneDep("propolis", DetailDep(Some(GitCrucible), Some(r))) : r \in Revs}

MemberPatterns == {<<"lib", "*">>, <<"lib", "a">>}

MemberLists == SeqUpTo(MemberPatterns, MaxMembers)

RootManifests == {Leaf(d) : d \in RootTables} \cup {WorkspaceRoot(d, w, m) : d \in RootTables, w \in CrucibleTables, m \in MemberLists}

\* the trees under one checkout: the root manifest and the members lib/a, lib/b,
\* each absent, unparseable or a manifest of its own
Trees(root) ==
    {  [d \in {<<root>>} \cup A \cup B |->
            IF d = <<root>> THEN m ELSE IF d = <<root, "lib", "a">> THEN a ELSE b]
       : m \in RootManifests,
         a \in {Unparsed} \cup {Leaf(t) : t \in CrucibleTables},
         b \in {Unparsed} \cup {Leaf(t) : t \in PinTables},
         A \in SUBSET {<<root, "lib", "a">>},
         B \in SUBSET {<<root, "lib", "b">>} }

Tracked == {"crucible", "propolis", "maghemite", "dendrite", "omicron"}

\* variables a function-level run leaves alone
Idle ==
    /\ exists = Tracked
    /\ heads = [r \in Tracked |-> 1]
    /\ lockfiles = <<>>
    /\ pkgman = <<>>
    /\ responses = <<>>
    /\ todo = <<>>
    /\ ran = <<>>
    /\ queries = <<>>
    /\ run = 1
    /\ prev_out = <<>>

LockSources ==
    {[url |-> UrlCrates, kind |-> Registry, precise |-> None],
     [url |-> UrlCrucible, kind |-> GitBranch, precise |-> None],
     [url |-> UrlCrucible, kind |-> GitRev, precise |-> Some(1)],
     [url |-> UrlProgenitor, kind |-> GitBranch, precise |-> Some(1)]}
        \cup {[url |-> UrlCrucible, kind |-> GitBranch, precise |-> Some(r)] : r \in Revs}

LockPackages ==
    {[name |-> "crucible", source |-> s] : s \in Opt(LockSources)}
        \cup {[name |-> "propolis", source |-> Some([url |-> UrlCrucible, kind |-> GitBranch, precise |-> Some(r)])] : r \in Revs}

NotLoaded == [loaded |-> FALSE, packages |-> <<>>]

Loaded(ps) == [loaded |-> TRUE, packages |-> ps]

Lockfiles == {NotLoaded} \cup {Loaded(ps) : ps \in SeqUpTo(LockPackages, MaxPkgs)}

NoFiles == [d \in {} |-> Unparsed]

\* the manifest trees (with the unreadable directories) of the lockfile runs
LockEnvs(root) ==
    LET one(m) == [d \in {<<root>>} |-> m]
        tree(m, a, b) == [d \in {<<root>>, <<root, "lib", "a">>, <<root, "lib", "b">>} |-> IF d = <<root>> THEN m ELSE IF d = <<root, "lib", "a">> THEN a ELSE b]
    IN  {[fs |-> NoFiles, unreadable |-> {}],
         [fs |-> one(Unparsed), unreadable |-> {}],
         [fs |-> one(Leaf(OneDep("crucible", SimpleDep))), unreadable |-> {}],
         [fs |-> tree(WorkspaceRoot(NoDeps, NoDeps, << <<"lib", "a">> >>), Leaf(OneDep("propolis", SimpleDep)), Leaf(OneDep("crucible", SimpleDep))), unreadable |-> {}],
         [fs |-> tree(WorkspaceRoot(NoDeps, OneDep("propolis", SimpleDep), << <<"lib", "*">> >>), Leaf(OneDep("crucible", SimpleDep)), Unparsed), unreadable |-> {}],
         [fs |-> tree(WorkspaceRoot(NoDeps, OneDep("propolis", SimpleDep), << <<"lib", "*">> >>), Leaf(OneDep("crucible", SimpleDep)), Unparsed), unreadable |-> {<<root, "lib">>}]}

InitLock ==
    /\ exists = Tracked
    /\ heads = [r \in Tracked |-> 1]
    /\ pkgman = <<>>
    /\ responses = <<>>
    /\ todo = <<>>
    /\ ran = <<>>
    /\ queries = <<>>
    /\ run = 1
    /\ prev_out = <<>>
    /\ \E e \in LockEnvs("propolis") : fs = e.fs /\ unreadable = e.unreadable
    /\ lockfiles \in [{"propolis"} -> Lockfiles]
    /\ latest_revs \in {[r \in Tracked |-> IF r = "crucible" THEN c ELSE 1] : c \in Revs}
    /\ call = [fn |-> "check_cargo_lock_revisions", sub_directory |-> <<"propolis">>, package |-> "", ensure_rev |-> 0]
    /\ pc = "call"
    /\ update_required = FALSE
    /\ out = <<>>
    /\ errout = <<>>

\* one application of check_cargo_lock_revisions, the printing of the set of
\* sources included
CallCheckLock ==
    /\ pc = "call"
    /\ call.fn = "check_cargo_lock_revisions"
    /\ LET r == check_cargo_lock_revisions(fs, unreadable, lockfiles[call.sub_directory[1]], call.sub_directory, latest_revs)
       IN  /\ errout' = errout \o r.errout
           /\ \/ /\ r.outcome = "err"
                 /\ pc' = "failed"
                 /\ out' = out
              \/ /\ r.outcome = "panic"
                 /\ pc' = "panicked"
                 /\ out' = out \o r.out
              \/ /\ r.outcome = "ok"
                 /\ pc' = "returned"
                 /\ \E order \in Orders(r.sources) : out' = out \o r.out \o source_lines(call.sub_directory, order)
    /\ UNCHANGED <<env, latest_revs, update_required, todo, ran, queries, call, run, prev_out>>

NextLock == CallCheckLock

SpecLock == InitLock /\ [][NextLock]_vars

InitToml ==
    /\ Idle
    /\ fs \in Trees("propolis")
    /\ unreadable \in SUBSET {<<"propolis", "lib">>}
    /\ call \in [fn : {"compare_cargo_toml_revisions"}, sub_directory : {<<"propolis">>}, package : {"crucible"}, ensure_rev : Revs]
    /\ pc = "call"
    /\ latest_revs = <<>>
    /\ update_required = FALSE
    /\ out = <<>>
    /\ errout = <<>>

\* one application of compare_cargo_toml_revisions to the root manifest
CallCompare ==
    /\ pc = "call"
    /\ call.fn = "compare_cargo_toml_revisions"
    /\ LET r == compare_cargo_toml_revisions(fs, unreadable, call.sub_directory, fs[call.sub_directory], call.package, call.ensure_rev)
       IN  /\ out' = out \o r.out
           /\ errout' = errout \o r.errout
           /\ update_required' = (update_required \/ r.upd)
           /\ pc' = IF r.err THEN "failed" ELSE "returned"
    /\ UNCHANGED <<env, latest_revs, todo, ran, queries, call, run, prev_out>>

NextToml == CallCompare

SpecToml == InitToml /\ [][NextToml]_vars

----------------------------------------------------------------------------
(* main(): the driver.  A file is read when main() gets to it; what was read *)
(* is kept, so that a second run of the program reads the same.             *)

MainHeads == {[r \in Tracked |-> IF r = "crucible" THEN c ELSE IF r = "propolis" THEN p ELSE IF r = "dendrite" THEN d ELSE 1] : c \in Revs, p \in Revs, d \in Revs}

\* the checkouts: crucible; propolis pinning crucible; omicron pinning propolis
\* in its root and crucible in its member lib/a
MainTrees ==
    {  [d \in {<<"crucible">>, <<"propolis">>, <<"omicron">>, <<"omicron", "lib", "a">>} |->
            IF d = <<"crucible">> THEN Leaf(OneDep("crucible", SimpleDep))
            ELSE IF d = <<"propolis">> THEN p
            ELSE IF d = <<"omicron">> THEN WorkspaceRoot(OneDep("propolis", DetailDep(Some(GitPropolis), Some(op))), NoDeps, << <<"lib", "*">> >>)
            ELSE Leaf(OneDep("crucible", DetailDep(Some(GitCrucible), Some(oc))))]
       : p \in {Unparsed} \cup {Leaf(OneDep("crucible", DetailDep(Some(GitCrucible), Some(r)))) : r \in Revs},
         op \in Revs, oc \in Revs }

RegistryPackage == [name |-> "serde", source |-> Some([url |-> UrlCrates, kind |-> Registry, precise |-> None])]

BranchPackage(n, r) == [name |-> n, source |-> Some([url |-> UrlCrucible, kind |-> GitBranch, precise |-> Some(r)])]

\* what main() can find in the Cargo.lock of a checkout
MainLocks(repo) ==
    IF repo = "crucible"
    THEN {NotLoaded, Loaded(<<>>), Loaded(<<BranchPackage("crucible", 1), RegistryPackage>>), Loaded(<<BranchPackage("crucible", 1), BranchPackage("propolis", 2)>>)}
    ELSE IF repo = "propolis"
    THEN {Loaded(<<>>), Loaded(<<BranchPackage("crucible", 1), BranchPackage("propolis", 2)>>)}
    ELSE {Loaded(<<>>), Loaded(<<RegistryPackage>>)}

\* package_manifest.packages is a BTreeMap: the loop visits the names in order
ArtifactOrder == <<"crucible", "propolis-server">>

Hashes == {"aaaa", "bbbb"}

Local == [kind |-> "Local", repo |-> "", commit |-> 0, sha256 |-> <<>>]

Prebuilt(repo, commit, sha256) == [kind |-> "Prebuilt", repo |-> repo, commit |-> commit, sha256 |-> sha256]

ArtifactRepos(name) == IF name = "crucible" THEN {"crucible", "hubris"} ELSE {"propolis", "maghemite", "dendrite"}

PackageChoices(name) == {Local} \cup {Prebuilt(r, c, <<h>>) : r \in ArtifactRepos(name), c \in Revs, h \in Hashes}

\* what main() can find in omicron/package-manifest.toml: a file that does not
\* parse, or packages by name
PackageManifests ==
    {[parsed |-> FALSE, packages |-> <<>>]}
        \cup UNION {{[parsed |-> TRUE, packages |-> f] : f \in {g \in [N -> UNION {PackageChoices(n) : n \in N}] : \A n \in N : g[n] \in PackageChoices(n)}} : N \in SUBSET Range(ArtifactOrder)}

\* what buildomat can answer: no answer at all, or a status and a body
NetworkError == [sent |-> FALSE, status |-> 0, text |-> FALSE, body |-> <<>>]

Http(status, body) == [sent |-> TRUE, status |-> status, text |-> TRUE, body |-> body]

\* the status arrives and the body does not: response.text() is Err
BodyError == [sent |-> TRUE, status |-> 200, text |-> FALSE, body |-> <<>>]

Responses == {NetworkError, BodyError, Http(404, <<>>), Http(500, <<>>)} \cup {Http(200, <<h, "\n">>) : h \in Hashes}

\* StatusCode::is_success
is_success(status) == status >= 200 /\ status < 300

Whitespace == {" ", "\n"}

\* a mutant: the body is compared as it came
trim_none(body) == body

\* str::trim: the body without its leading and trailing whitespace
RECURSIVE trim(_)
trim(body) ==
    IF body = <<>> THEN body
    ELSE IF Head(body) \in Whitespace THEN trim(Tail(body))
    ELSE IF body[Len(body)] \in Whitespace THEN trim(SubSeq(body, 1, Len(body) - 1))
    ELSE body

Init ==
    /\ exists \in {Tracked, Tracked \ {"dendrite"}}
    /\ heads \in MainHeads
    /\ fs \in MainTrees
    /\ unreadable \in SUBSET {<<"omicron", "lib">>}
    /\ lockfiles = <<>>
    /\ pkgman = <<>>
    /\ responses = <<>>
    /\ pc = "start"
    /\ latest_revs = <<>>
    /\ update_required = FALSE
    /\ todo = <<>>
    /\ out = <<>>
    /\ errout = <<>>
    /\ ran = <<>>
    /\ queries = <<>>
    /\ call = [fn |-> "main", sub_directory |-> <<>>, package |-> "", ensure_rev |-> 0]
    /\ run = 1
    /\ prev_out = <<>>

InMain == call.fn = "main"

\* lines 297-334: the checkouts must be there; their heads fill latest_revs
Start ==
    /\ InMain /\ pc = "start"
    /\ IF exists # Tracked
       THEN pc' = "failed" /\ latest_revs' = latest_revs
       ELSE pc' = "lock_crucible" /\ latest_revs' = heads
    /\ UNCHANGED <<env, update_required, todo, out, errout, ran, queries, call, run, prev_out>>

\* a call of check_cargo_lock_revisions(repo, &latest_revs)? by main()
CheckLock(repo, at, next) ==
    /\ InMain /\ pc = at
    /\ \E lockfile \in (IF repo \in DOMAIN lockfiles THEN {lockfiles[repo]} ELSE MainLocks(repo)) :
        LET r == check_cargo_lock_revisions(fs, unreadable, lockfile, <<repo>>, latest_revs)
        IN  /\ lockfiles' = (repo :> lockfile) @@ lockfiles
            /\ errout' = errout \o r.errout
            /\ ran' = Append(ran, [check |-> "lock", repo |-> repo, package |-> "", drift |-> FALSE, ok |-> r.outcome = "ok"])
            /\ \/ /\ r.outcome = "err"
                  /\ pc' = "failed"
                  /\ out' = out
               \/ /\ r.outcome = "panic"
                  /\ pc' = "panicked"
                  /\ out' = out \o r.out
               \/ /\ r.outcome = "ok"
                  /\ pc' = next
                  /\ \E order \in Orders(r.sources) : out' = out \o r.out \o source_lines(<<repo>>, order)
    /\ UNCHANGED <<exists, heads, fs, unreadable, pkgman, responses, latest_revs, update_required, todo, queries, call, run, prev_out>>

\* line 337
CheckLockCrucible == CheckLock("crucible", "lock_crucible", "toml_propolis")

\* line 352
CheckLockPropolis == CheckLock("propolis", "lock_propolis", "lock_omicron")

\* line 358
CheckLockOmicron == CheckLock("omicron", "lock_omicron", "toml_omicron_crucible")

\* a mutant: the driver does not return when an update is required
Compare_no_return(repo, package, at, next, gate) ==
    /\ InMain /\ pc = at
    /\ IF ~fs[<<repo>>].parsed
       THEN /\ pc' = "failed"                    \* the ? on Manifest::from_path
            /\ UNCHANGED <<out, errout, update_required, ran>>
       ELSE LET r == compare_cargo_toml_revisions(fs, unreadable, <<repo>>, fs[<<repo>>], package, latest_revs[package])
            IN  /\ out' = out \o r.out
                /\ errout' = errout \o r.errout
                /\ ran' = Append(ran, [check |-> "toml", repo |-> repo, package |-> package, drift |-> r.out # <<>>, ok |-> ~r.err])
                /\ update_required' = IF r.err THEN update_required ELSE (update_required \/ r.upd)
                /\ pc' = IF r.err THEN "failed"
                         ELSE IF FALSE THEN "done"
                         ELSE next
    /\ UNCHANGED <<env, latest_revs, todo, queries, call, run, prev_out>>

\* update_required |= compare_cargo_toml_revisions(repo, &Manifest::from_path(..)?,
\* package, rev)?, and, where gate is set, the if update_required { return }
\* that follows it
Compare(repo, package, at, next, gate) ==
    /\ InMain /\ pc = at
    /\ IF ~fs[<<repo>>].parsed
       THEN /\ pc' = "failed"                    \* the ? on Manifest::from_path
            /\ UNCHANGED <<out, errout, update_required, ran>>
       ELSE LET r == compare_cargo_toml_revisions(fs, unreadable, <<repo>>, fs[<<repo>>], package, latest_revs[package])
            IN  /\ out' = out \o r.out
                /\ errout' = errout \o r.errout
                /\ ran' = Append(ran, [check |-> "toml", repo |-> repo, package |-> package, drift |-> r.out # <<>>, ok |-> ~r.err])
                /\ update_required' = IF r.err THEN update_required ELSE (update_required \/ r.upd)
                /\ pc' = IF r.err THEN "failed"
                         ELSE IF gate /\ update_required' THEN "done"
                         ELSE next
    /\ UNCHANGED <<env, latest_revs, todo, queries, call, run, prev_out>>

\* lines 340-349
ComparePropolis == Compare("propolis", "crucible", "toml_propolis", "lock_propolis", TRUE)

\* lines 360-365
CompareOmicronCrucible == Compare("omicron", "crucible", "toml_omicron_crucible", "toml_omicron_propolis", FALSE)

\* lines 367-376
CompareOmicronPropolis == Compare("omicron", "propolis", "toml_omicron_propolis", "load_manifest", TRUE)

\* lines 379-380: the package manifest is read and parsed, or the run fails
LoadPackageManifest ==
    /\ InMain /\ pc = "load_manifest"
    /\ \E file \in (IF pkgman # None THEN {pkgman[1]} ELSE PackageManifests) :
          /\ pkgman' = Some(file)
          /\ ran' = Append(ran, [check |-> "artifacts", repo |-> "omicron", package |-> "", drift |-> FALSE, ok |-> file.parsed])
          /\ IF file.parsed
             THEN pc' = "artifacts" /\ todo' = SelectSeq(ArtifactOrder, LAMBDA n : n \in DOMAIN file.packages)
             ELSE pc' = "failed" /\ todo' = todo
    /\ UNCHANGED <<exists, heads, fs, unreadable, lockfiles, responses, latest_revs, update_required, out, errout, queries, call, run, prev_out>>

\* a mutant: a query that fails does not end the turn of the loop
artifact_lines_no_continue(name, package, latest, propolis_rev, response) ==
    (IF ~response.sent
     THEN << [type |-> "artifact-not-yet-built", name |-> name, rev |-> propolis_rev, cause |-> 0] >>
     ELSE IF ~is_success(response.status)
     THEN << [type |-> "artifact-not-yet-built", name |-> name, rev |-> propolis_rev, cause |-> response.status] >>
     ELSE IF trim(response.body) # package.sha256
     THEN << [type |-> "artifact-hash-mismatch", name |-> name, from |-> package.sha256, to |-> trim(response.body)] >>
     ELSE <<>>)
    \o
    (IF package.commit # latest[package.repo]
     THEN << [type |-> "artifact-commit-stale", name |-> name, from |-> package.commit, to |-> latest[package.repo]] >>
     ELSE <<>>)

\* lines 400-448: what the loop body does for a prebuilt package of a tracked
\* repository that is not maghemite, given the answer to its query
artifact_lines(name, package, latest, propolis_rev, response) ==
    IF ~response.sent
    THEN << [type |-> "artifact-not-yet-built", name |-> name, rev |-> propolis_rev, cause |-> 0] >>
    ELSE IF ~is_success(response.status)
    THEN << [type |-> "artifact-not-yet-built", name |-> name, rev |-> propolis_rev, cause |-> response.status] >>
    ELSE (IF trim(response.body) # package.sha256
          THEN << [type |-> "artifact-hash-mismatch", name |-> name, from |-> package.sha256, to |-> trim(response.body)] >>
          ELSE <<>>)
         \o
         (IF package.commit # latest[package.repo]
          THEN << [type |-> "artifact-commit-stale", name |-> name, from |-> package.commit, to |-> latest[package.repo]] >>
          ELSE <<>>)

\* a mutant: the loop ends at the first query that fails
CheckArtifact_break ==
    /\ InMain /\ pc = "artifacts" /\ todo # <<>>
    /\ LET name == Head(todo)
           package == pkgman[1].packages[name]
       IN  /\ \/ /\ package.kind # "Prebuilt"
                 /\ UNCHANGED <<pc, out, update_required, responses, queries>>
              \/ /\ package.kind = "Prebuilt"
                 /\ package.repo \notin DOMAIN latest_revs
                 /\ out' = Append(out, [type |-> "no-latest-rev", repo |-> package.repo])
                 /\ UNCHANGED <<pc, update_required, responses, queries>>
              \/ /\ package.kind = "Prebuilt"
                 /\ package.repo \in DOMAIN latest_revs
                 /\ package.repo = "maghemite"
                 /\ UNCHANGED <<pc, out, update_required, responses, queries>>
              \/ /\ package.kind = "Prebuilt"
                 /\ package.repo \in DOMAIN latest_revs
                 /\ package.repo # "maghemite"
                 /\ \E response \in (IF name \in DOMAIN responses THEN {responses[name]} ELSE Responses) :
                      LET lines == artifact_lines(name, package, latest_revs, latest_revs["propolis"], response)
                      IN  /\ responses' = (name :> response) @@ responses
                          /\ queries' = Append(queries, [name |-> name, repo |-> package.repo, rev |-> latest_revs[package.repo]])
                          /\ IF response.sent /\ is_success(response.status) /\ ~response.text
                             THEN pc' = "failed" /\ UNCHANGED <<out, update_required>>     \* the ? of line 428
                             ELSE /\ pc' = pc
                                  /\ out' = out \o lines
                                  /\ update_required' = (update_required \/ \E i \in DOMAIN lines : lines[i].type # "artifact-not-yet-built")
           /\ todo' = IF package.kind = "Prebuilt" /\ name \in DOMAIN responses' /\ (~responses'[name].sent \/ ~is_success(responses'[name].status)) THEN <<>> ELSE Tail(todo)
    /\ UNCHANGED <<exists, heads, fs, unreadable, lockfiles, pkgman, latest_revs, errout, ran, call, run, prev_out>>

\* lines 382-450: one turn of the loop over package_manifest.packages
CheckArtifact ==
    /\ InMain /\ pc = "artifacts" /\ todo # <<>>
    /\ LET name == Head(todo)
           package == pkgman[1].packages[name]
       IN  /\ \/ /\ package.kind # "Prebuilt"
                 /\ UNCHANGED <<pc, out, update_required, responses, queries>>
              \/ /\ package.kind = "Prebuilt"
                 /\ package.repo \notin DOMAIN latest_revs
                 /\ out' = Append(out, [type |-> "no-latest-rev", repo |-> package.repo])
                 /\ UNCHANGED <<pc, update_required, responses, queries>>
              \/ /\ package.kind = "Prebuilt"
                 /\ package.repo \in DOMAIN latest_revs
                 /\ package.repo = "maghemite"
                 /\ UNCHANGED <<pc, out, update_required, responses, queries>>
              \/ /\ package.kind = "Prebuilt"
                 /\ package.repo \in DOMAIN latest_revs
                 /\ package.repo # "maghemite"
                 /\ \E response \in (IF name \in DOMAIN responses THEN {responses[name]} ELSE Responses) :
                      LET lines == artifact_lines(name, package, latest_revs, latest_revs["propolis"], response)
                      IN  /\ responses' = (name :> response) @@ responses
                          /\ queries' = Append(queries, [name |-> name, repo |-> package.repo, rev |-> latest_revs[package.repo]])
                          /\ IF response.sent /\ is_success(response.status) /\ ~response.text
                             THEN pc' = "failed" /\ UNCHANGED <<out, update_required>>     \* the ? of line 428
                             ELSE /\ pc' = pc
                                  /\ out' = out \o lines
                                  /\ update_required' = (update_required \/ \E i \in DOMAIN lines : lines[i].type # "artifact-not-yet-built")
           /\ todo' = Tail(todo)
    /\ UNCHANGED <<exists, heads, fs, unreadable, lockfiles, pkgman, latest_revs, errout, ran, call, run, prev_out>>

\* lines 452-456
Finish ==
    /\ InMain /\ pc = "artifacts" /\ todo = <<>>
    /\ pc' = "done"
    /\ UNCHANGED <<env, latest_revs, update_required, todo, out, errout, ran, queries, call, run, prev_out>>

Next ==
    \/ Start
    \/ CheckLockCrucible
    \/ ComparePropolis
    \/ CheckLockPropolis
    \/ CheckLockOmicron
    \/ CompareOmicronCrucible
    \/ CompareOmicronPropolis
    \/ LoadPackageManifest
    \/ CheckArtifact
    \/ Finish

Spec == Init /\ [][Next]_vars

Terminal == pc \in {"done", "failed", "panicked"}

\* the program is run again in the same directory: nothing it reads has changed
Rerun ==
    /\ InMain /\ Terminal /\ run = 1
    /\ run' = 2
    /\ prev_out' = out
    /\ pc' = "start"
    /\ latest_revs' = <<>>
    /\ update_required' = FALSE
    /\ todo' = <<>>
    /\ out' = <<>>
    /\ errout' = <<>>
    /\ ran' = <<>>
    /\ queries' = <<>>
    /\ UNCHANGED <<env, call>>

NextRerun == Next \/ Rerun

SpecRerun == Init /\ [][NextRerun]_vars

----------------------------------------------------------------------------
(* C1: the revision-drift records of one compare_cargo_toml_revisions run *)

\* the member directories one manifest's workspace expands to
MemberDirs(fsys, d) ==
    IF fsys[d].parsed /\ fsys[d].workspace # None
    THEN {m \in DOMAIN fsys : \E i \in DOMAIN fsys[d].workspace[1].members : PathMatches(d \o fsys[d].workspace[1].members[i], m)}
    ELSE {}

RECURSIVE ReachableFrom(_, _, _)
ReachableFrom(fsys, R, n) ==
    IF n = 0 THEN R
    ELSE ReachableFrom(fsys, R \cup UNION {MemberDirs(fsys, d) : d \in R}, n - 1)

\* the manifests reachable from the root through workspace member expansion
\* that parse (an unparseable member contributes nothing)
ReachableManifests(fsys, root) == {d \in ReachableFrom(fsys, {root}, Len(DirOrder)) : fsys[d].parsed}

\* the edges of one dependency table that drift from ensure_rev
DriftEdges(deps, package, ensure_rev) ==
    {k \in DOMAIN deps :
        /\ deps[k].detail # None
        /\ deps[k].detail[1].git # None
        /\ IsSuffix(<<package>>, deps[k].detail[1].git[1])
        /\ deps[k].detail[1].rev # None
        /\ deps[k].detail[1].rev[1] # ensure_rev}

DriftRecord(d, k, deps, ensure_rev) == [type |-> "revision-drift", path |-> d \o <<"Cargo.toml">>, key |-> k, from |-> deps[k].detail[1].rev[1], to |-> ensure_rev]

\* how many edges of the manifest in d are to yield the record rec
EdgesFor(fsys, d, package, ensure_rev, rec) ==
    LET m == fsys[d]
        direct == {k \in DriftEdges(m.dependencies, package, ensure_rev) : DriftRecord(d, k, m.dependencies, ensure_rev) = rec}
        scoped == IF m.workspace = None THEN {}
                  ELSE {k \in DriftEdges(m.workspace[1].dependencies, package, ensure_rev) : DriftRecord(d, k, m.workspace[1].dependencies, ensure_rev) = rec}
    IN  Cardinality(direct) + Cardinality(scoped)

RECURSIVE SumOver(_, _, _, _, _, _)
SumOver(fsys, D, package, ensure_rev, rec, acc) ==
    IF D = {} THEN acc
    ELSE LET d == CHOOSE x \in D : TRUE
         IN  SumOver(fsys, D \ {d}, package, ensure_rev, rec, acc + EdgesFor(fsys, d, package, ensure_rev, rec))

ExpectedCount(rec) == SumOver(fs, ReachableManifests(fs, call.sub_directory), call.package, call.ensure_rev, rec, 0)

ExpectedRecords ==
    UNION { {DriftRecord(d, k, fs[d].dependencies, call.ensure_rev) : k \in DriftEdges(fs[d].dependencies, call.package, call.ensure_rev)}
            \cup (IF fs[d].workspace = None THEN {}
                  ELSE {DriftRecord(d, k, fs[d].workspace[1].dependencies, call.ensure_rev) : k \in DriftEdges(fs[d].workspace[1].dependencies, call.package, call.ensure_rev)})
          : d \in ReachableManifests(fs, call.sub_directory) }

Count(rec, lines) == Cardinality({i \in DOMAIN lines : lines[i] = rec})

\* C1: when compare_cargo_toml_revisions returns Ok, every drifting edge of
\* every reachable manifest has produced exactly one revision-drift record
\* (path, key, R1, R2), and no other edge has produced any: each record is
\* printed as many times as there are edges that call for it.
C1_ExactlyOneRecordPerEdge ==
    (pc = "returned" /\ call.fn = "compare_cargo_toml_revisions") =>
        \A rec \in Range(out) \cup ExpectedRecords : Count(rec, out) = ExpectedCount(rec)

\* C1, as far as the code goes: the records printed are those of the drifting
\* edges and of no other edge, a record being printed once for every time the
\* member patterns expand to its manifest.
C1_RecordsAsSet ==
    (pc = "returned" /\ call.fn = "compare_cargo_toml_revisions") =>
        /\ Range(out) = ExpectedRecords
        /\ update_required = (ExpectedRecords # {})

----------------------------------------------------------------------------
(* C3, C4: the lockfile check *)

LockArg == lockfiles[call.sub_directory[1]]

\* the names of the direct dependencies of the manifest graph under root
DirectNames(fsys, root) ==
    IF root \notin DOMAIN fsys THEN {}
    ELSE UNION {DOMAIN fsys[d].dependencies \cup (IF fsys[d].workspace = None THEN {} ELSE DOMAIN fsys[d].workspace[1].dependencies) : d \in ReachableManifests(fsys, root)}

\* two packages of the lockfile share a SourceIdentity (source kind and URL)
\* and differ in the precise revision
ConflictIn(packages) ==
    \E i, j \in DOMAIN packages :
        /\ packages[i].source # None /\ packages[j].source # None
        /\ packages[i].source[1].kind = packages[j].source[1].kind
        /\ packages[i].source[1].url = packages[j].source[1].url
        /\ packages[i].source[1].precise # packages[j].source[1].precise

LockCheckRan == call.fn = "check_cargo_lock_revisions" /\ pc \in {"returned", "panicked"}

\* C3: a check_cargo_lock_revisions run that got to its packages ends in the
\* panic of line 278 if and only if two packages of the lockfile share a
\* SourceIdentity and differ in the precise revision, whatever the order of
\* the packages; otherwise it returns normally.
C3_ConflictIffPanic ==
    LockCheckRan => ((pc = "panicked") <=> ConflictIn(LockArg.packages))

C3_Witness ==
    /\ LockCheckRan /\ pc = "panicked"
    /\ Len(LockArg.packages) = 3
    /\ LockArg.packages[1].source # None /\ LockArg.packages[3].source # None
    /\ LockArg.packages[2].source # None
    /\ LockArg.packages[1].source[1].url = LockArg.packages[3].source[1].url
    /\ LockArg.packages[1].source[1].kind = LockArg.packages[3].source[1].kind
    /\ LockArg.packages[1].source[1].url = LockArg.packages[2].source[1].url
    /\ LockArg.packages[1].source[1].kind # LockArg.packages[2].source[1].kind
    /\ LockArg.packages[1].source[1].precise # LockArg.packages[3].source[1].precise

\* the package is pinned to a branch of a tracked repository at a revision
\* that is not the repository's current one
StalePin(p, latest) ==
    /\ p.source # None
    /\ Len(p.source[1].url.path) = 2
    /\ p.source[1].url.path[1] = "oxidecomputer"
    /\ p.source[1].url.path[2] \in DOMAIN latest
    /\ p.source[1].kind = GitBranch
    /\ p.source[1].precise # None
    /\ p.source[1].precise[1] # latest[p.source[1].url.path[2]]

\* C4: every lockfile-stale-pin record is for a package of the lockfile whose
\* source is a branch of a tracked repository with a known current revision,
\* whose precise revision differs from that revision, and whose name is a
\* direct dependency name of the manifest graph; so a stale package that is
\* only a transitive dependency has no record.
C4_StalePinOnlyIfDirect ==
    LockCheckRan =>
        \A n \in DOMAIN out : out[n].type = "lockfile-stale-pin" =>
            /\ out[n].name \in DirectNames(fs, call.sub_directory)
            /\ \E i \in DOMAIN LockArg.packages :
                  /\ LockArg.packages[i].name = out[n].name
                  /\ StalePin(LockArg.packages[i], latest_revs)
                  /\ out[n].from = LockArg.packages[i].source[1].precise[1]
                  /\ out[n].repo = <<LockArg.packages[i].source[1].url.path[2]>>
                  /\ out[n].to = latest_revs[LockArg.packages[i].source[1].url.path[2]]

C4_Witness ==
    /\ LockCheckRan /\ pc = "returned"
    /\ \E n \in DOMAIN out : out[n].type = "lockfile-stale-pin" /\ out[n].name = "crucible"
    /\ \E i \in DOMAIN LockArg.packages : LockArg.packages[i].name = "propolis" /\ StalePin(LockArg.packages[i], latest_revs)
    /\ "propolis" \notin DirectNames(fs, call.sub_directory)
    /\ \A n \in DOMAIN out : out[n].type = "lockfile-stale-pin" => out[n].name # "propolis"

----------------------------------------------------------------------------
(* C2: the order of the checks and the two gates of main() *)

Check(c, repo, package) == [check |-> c, repo |-> repo, package |-> package]

\* the checks in the order the driver is to run them
DriverOrder ==
    << Check("lock", "crucible", ""), Check("toml", "propolis", "crucible"),
       Check("lock", "propolis", ""), Check("lock", "omicron", ""),
       Check("toml", "omicron", "crucible"), Check("toml", "omicron", "propolis"),
       Check("artifacts", "omicron", "") >>

Ran(c) == \E i \in DOMAIN ran : Check(ran[i].check, ran[i].repo, ran[i].package) = c

\* the check ran and printed at least one revision-drift record
Drifted(c) == \E i \in DOMAIN ran : Check(ran[i].check, ran[i].repo, ran[i].package) = c /\ ran[i].drift

\* the check ran, returned, and printed no revision-drift record
Clean(c) == \E i \in DOMAIN ran : Check(ran[i].check, ran[i].repo, ran[i].package) = c /\ ~ran[i].drift /\ ran[i].ok

InOrder == Len(ran) <= Len(DriverOrder) /\ \A i \in DOMAIN ran : Check(ran[i].check, ran[i].repo, ran[i].package) = DriverOrder[i]

GatesHold ==
    /\ Drifted(DriverOrder[2]) => \A i \in 3..7 : ~Ran(DriverOrder[i])
    /\ (Drifted(DriverOrder[5]) \/ Drifted(DriverOrder[6])) => ~Ran(DriverOrder[7])

\* C2 as stated: the checks run in dependency order; a drift record of the
\* propolis revision check keeps every later check from running, one of an
\* omicron revision check keeps the artifact check from running; and
\* conversely, a run in which the upstream check printed no record has run
\* the checks downstream of it by the time the program ends.
C2_GatesAndConverse ==
    /\ InMain => InOrder /\ GatesHold
    /\ (InMain /\ Terminal /\ Clean(DriverOrder[2])) => \A i \in 3..6 : Ran(DriverOrder[i])
    /\ (InMain /\ Terminal /\ Clean(DriverOrder[5]) /\ Clean(DriverOrder[6])) => Ran(DriverOrder[7])

\* C2, amended: order and gates as stated; conversely, when the upstream
\* check returns without a record the driver goes on to the next check (the
\* propolis lockfile check, the artifact check), and a run that ends normally
\* has run every check downstream of a clean propolis revision check up to
\* the second gate.
C2_GatesAndNextCheck ==
    /\ InMain => InOrder /\ GatesHold
    /\ (InMain /\ Terminal /\ Clean(DriverOrder[2])) => Ran(DriverOrder[3])
    /\ (InMain /\ pc = "done" /\ Clean(DriverOrder[2])) => \A i \in 3..6 : Ran(DriverOrder[i])
    /\ (InMain /\ Terminal /\ Clean(DriverOrder[5]) /\ Clean(DriverOrder[6])) => Ran(DriverOrder[7])

C2_Witness ==
    /\ InMain /\ pc = "done"
    /\ Drifted(DriverOrder[2])
    /\ Len(ran) = 2
    /\ \E i \in DOMAIN out : out[i].type = "revision-drift" /\ out[i].path = <<"propolis", "Cargo.toml">>

----------------------------------------------------------------------------
(* C5: silence *)

PinsOf(deps) == {deps[k].detail[1] : k \in {x \in DOMAIN deps : deps[x].detail # None}}

TablesOf(m) == {m.dependencies} \cup (IF m.workspace = None THEN {} ELSE {m.workspace[1].dependencies})

\* every manifest parses and pins crucible and propolis at their heads
ManifestsConsistent ==
    \A d \in DOMAIN fs :
        /\ fs[d].parsed
        /\ \A t \in TablesOf(fs[d]) : \A pin \in PinsOf(t) :
              /\ pin.git = Some(GitCrucible) => pin.rev = Some(heads["crucible"])
              /\ pin.git = Some(GitPropolis) => pin.rev = Some(heads["propolis"])

\* every lockfile read loads, has no stale pin and no conflict
LockfilesConsistent ==
    \A repo \in DOMAIN lockfiles :
        /\ lockfiles[repo].loaded
        /\ ~ConflictIn(lockfiles[repo].packages)
        /\ \A i \in DOMAIN lockfiles[repo].packages : ~StalePin(lockfiles[repo].packages[i], heads)

\* the hash a response carries: its body less the whitespace
ReturnedHash(response) == SelectSeq(response.body, LAMBDA c : c \notin Whitespace)

Failed(response) == ~response.sent \/ response.status \notin 200..299

\* the query succeeded: a success status, and a body that was read
Succeeded(response) == response.sent /\ response.status \in 200..299 /\ response.text

\* every prebuilt package comes from a tracked repository at its head, and
\* its image is built with the hash declared
ArtifactsConsistent ==
    /\ pkgman # None /\ pkgman[1].parsed
    /\ \A name \in DOMAIN pkgman[1].packages :
          LET package == pkgman[1].packages[name]
          IN  package.kind = "Prebuilt" =>
                /\ package.repo \in Tracked
                /\ package.commit = heads[package.repo]
                /\ package.repo # "maghemite" =>
                      /\ name \in DOMAIN responses
                      /\ Succeeded(responses[name])
                      /\ ReturnedHash(responses[name]) = package.sha256

\* C5: a run over fully consistent inputs prints nothing to stdout.
C5_SilentWhenConsistent ==
    (InMain /\ pc = "done" /\ exists = Tracked /\ ManifestsConsistent /\ LockfilesConsistent /\ ArtifactsConsistent) => out = <<>>

----------------------------------------------------------------------------
(* C6, C7, C8, C10: the loop over the prebuilt packages *)

ArtifactsRan == InMain /\ pc \in {"artifacts", "done"} /\ Ran(DriverOrder[7])

Queried(name) == \E i \in DOMAIN queries : queries[i].name = name

LinesOf(name, type) == {i \in DOMAIN out : out[i].type = type /\ out[i].name = name}

\* C6: a query that fails (no answer, or a status that is no success) yields
\* exactly one artifact-not-yet-built record for its artifact and neither a
\* hash-mismatch nor a commit-stale record, and does not set update_required:
\* the flag is set in the loop only when some query succeeded, so a run in
\* which every query fails ends with the flag false.
C6_FailedQueryOnlyWaits ==
    ArtifactsRan =>
        /\ \A name \in DOMAIN responses : (Queried(name) /\ Failed(responses[name])) =>
              /\ Cardinality(LinesOf(name, "artifact-not-yet-built")) = 1
              /\ LinesOf(name, "artifact-hash-mismatch") = {}
              /\ LinesOf(name, "artifact-commit-stale") = {}
        /\ update_required => \E name \in DOMAIN responses : Queried(name) /\ Succeeded(responses[name])

C6_Witness ==
    /\ ArtifactsRan /\ pc = "done"
    /\ Len(queries) = 2
    /\ ~responses[queries[1].name].sent
    /\ responses[queries[2].name].status = 500
    /\ pkgman[1].packages[queries[2].name].commit # latest_revs[queries[2].repo]
    /\ ~update_required

\* the packages the loop is done with
Visited == {name \in DOMAIN pkgman[1].packages : name \notin Range(todo)}

\* C7: for a prebuilt package of a tracked repository other than maghemite
\* whose query succeeded, a hash-mismatch record (declared to returned) is
\* printed iff the returned hash differs from the declared one, and a
\* commit-stale record iff the declared commit differs from the tracked
\* revision, each decided on its own; a package of an untracked or excluded
\* repository gets neither record (and no query).
C7_HashAndCommitIndependent ==
    ArtifactsRan =>
        \A name \in Visited :
            LET package == pkgman[1].packages[name]
                hash == LinesOf(name, "artifact-hash-mismatch")
                commit == LinesOf(name, "artifact-commit-stale")
            IN  package.kind = "Prebuilt" =>
                  IF package.repo \in Tracked /\ package.repo # "maghemite"
                  THEN /\ Queried(name)
                       /\ Succeeded(responses[name]) =>
                            /\ Cardinality(hash) = (IF ReturnedHash(responses[name]) # package.sha256 THEN 1 ELSE 0)
                            /\ \A i \in hash : out[i].from = package.sha256 /\ out[i].to = ReturnedHash(responses[name])
                            /\ Cardinality(commit) = (IF package.commit # heads[package.repo] THEN 1 ELSE 0)
                            /\ \A i \in commit : out[i].from = package.commit /\ out[i].to = heads[package.repo]
                  ELSE hash = {} /\ commit = {} /\ ~Queried(name)

\* the scenario of the spec: commit up to date, hash wrong
C7_Witness ==
    /\ ArtifactsRan /\ pc = "done"
    /\ "propolis-server" \in Visited
    /\ pkgman[1].packages["propolis-server"] = Prebuilt("propolis", heads["propolis"], <<"aaaa">>)
    /\ Queried("propolis-server")
    /\ responses["propolis-server"] = Http(200, <<"bbbb", "\n">>)
    /\ Cardinality(LinesOf("propolis-server", "artifact-hash-mismatch")) = 1
    /\ LinesOf("propolis-server", "artifact-commit-stale") = {}

ArtifactLine(i) == out[i].type \in {"artifact-not-yet-built", "artifact-hash-mismatch", "artifact-commit-stale", "no-latest-rev"}

\* C8 as stated: after an artifact-not-yet-built record the artifact check
\* stops: no record follows it, and no query is sent for a later artifact.
C8_StopsAfterNotBuilt ==
    ArtifactsRan =>
        \A i \in DOMAIN out : out[i].type = "artifact-not-yet-built" =>
            /\ \A j \in DOMAIN out : j > i => ~ArtifactLine(j)
            /\ queries[Len(queries)].name = out[i].name

\* the packages the loop is to query
Eligible == {name \in DOMAIN pkgman[1].packages : pkgman[1].packages[name].kind = "Prebuilt" /\ pkgman[1].packages[name].repo \in Tracked \ {"maghemite"}}

\* C8, amended: a query that fails yields the artifact-not-yet-built record
\* of its artifact and ends the work on that artifact only; the loop goes on
\* to the artifacts after it: by the end of the run every prebuilt package of
\* a tracked, non-excluded repository has been queried once, in the order of
\* the manifest, whatever the answers to the queries before it.
C8_ContinuesAfterNotBuilt ==
    ArtifactsRan =>
        /\ \A name \in Eligible \cap Visited : Cardinality({i \in DOMAIN queries : queries[i].name = name}) = 1
        /\ pc = "done" => Len(queries) = Cardinality(Eligible)
        /\ \A name \in DOMAIN responses : (Queried(name) /\ Failed(responses[name])) => LinesOf(name, "artifact-not-yet-built") # {}

C8_Witness ==
    /\ ArtifactsRan /\ pc = "done"
    /\ Len(queries) = 2
    /\ Failed(responses[queries[1].name])
    /\ \E i, j \in DOMAIN out :
          /\ i < j
          /\ out[i].type = "artifact-not-yet-built" /\ out[i].name = queries[1].name
          /\ out[j].type = "artifact-hash-mismatch" /\ out[j].name = queries[2].name

\* C10: the revision an artifact-not-yet-built record names is the tracked
\* revision of the repository its package comes from, the one its query asked
\* for.
C10_WaitNamesQueriedRevision ==
    ArtifactsRan =>
        \A i \in DOMAIN out : out[i].type = "artifact-not-yet-built" =>
            /\ out[i].rev = latest_revs[pkgman[1].packages[out[i].name].repo]
            /\ \E q \in DOMAIN queries : queries[q].name = out[i].name /\ queries[q].rev = out[i].rev

----------------------------------------------------------------------------
(* C9: determinism *)

\* C9: a second run over the same inputs prints the lines of the first, in
\* the same order.
C9_SameOutputTwice ==
    (InMain /\ run = 2 /\ Terminal) => out = prev_out

====
